---- MODULE Spec2Model ----
(***************************************************************************)
(* Token Trust bot (Update32.py / Update35.py): the risk score of          *)
(* analyze_token, the users table behind is_premium / can_scan and the     *)
(* payment webhook, and the alert store swept by alert_check.              *)
(*                                                                         *)
(* Handlers run one at a time on the bot's event loop; the alert_check job *)
(* shares that loop and gives way to them at its await of send_message.    *)
(* The webhook runs on a thread of its own: SpecCursor follows the two     *)
(* threads call by call on the cursor they share, the other                *)
(* specifications take each request of the webhook between two handlers.   *)
(* sync_stripe_subs is left out: it acts only on subscriptions whose own   *)
(* metadata holds a user_id, and create_checkout_session puts the user_id  *)
(* on the checkout session only.                                           *)
(***************************************************************************)
EXTENDS Integers, FiniteSets, Sequences, TLC

VARIABLES
    users,      \* users table: user_id -> row, or NoRow
    alerts,     \* alerts table / dict: <<user_id, addr>> -> alert, or NoAlert
    now,        \* datetime.now(), in clock ticks
    user_data,  \* context.user_data of each user: the pending alert_setup
    stripe,     \* the payment provider: checkout sessions and subscriptions
    sweep,      \* the alert_check job: its position and locals, and the
                \* keys handle_token wrote while it awaits (not program state)
    sent,       \* notifications sent for the alert stored under each key
    http,       \* last answer of the webhook endpoint
    ret,        \* what the last handler decided (replies, return values)
    report,     \* the report of the last analyze_token
    hist,       \* history of each user's scan requests (not program state)
    cursor,     \* the shared cursor c: the result of its last execute, the
                \* rows fetched from it, and the thread that executed it
    calls       \* the call on c each thread is in (followed in SpecCursor)

vars == <<users, alerts, now, user_data, stripe, sweep, sent, http, ret, report,
          hist, cursor, calls>>

\* Python's None where the value is otherwise a natural number.
None == -1

(***************************************************************************)
(* Risk score: analyze_token, Update35.py 682-873 (Update32.py 580-777).   *)
(***************************************************************************)

Chains == {"eth", "sol"}

\* etherscan_data / solana_data: the fields analyze_token reads for the score.
\* source_risky: the verified source holds one of detect_admin_controls' names.
EdData(chain) ==
    IF chain = "sol"
    THEN {[verified |-> v, source_risky |-> FALSE, mint_authority |-> m] :
              v \in BOOLEAN, m \in BOOLEAN}
    ELSE {[verified |-> v, source_risky |-> v /\ s, mint_authority |-> FALSE] :
              v \in BOOLEAN, s \in BOOLEAN}

\* dexscreener_data with the CoinGecko market cap: liquidity, the cap read from
\* cg or fdv (0 when neither has one) and the age in days (None when unknown).
DsData ==
    {[liquidity |-> l, cap |-> m, age_days |-> a] :
        l \in {0, 499, 500}, m \in {0, 1000000}, a \in {None, 6, 7}}

\* goplus_data: None (ok = FALSE) or the processed token_data.
NoGp ==
    [ok |-> FALSE, max_holder_percent |-> 0, owner_change_balance |-> FALSE,
     is_honeypot |-> FALSE, buy_tax |-> 0, sell_tax |-> 0, is_proxy |-> FALSE,
     liquidity_locked |-> FALSE, lp_holder_count |-> 0,
     ownership_renounced |-> FALSE, holder_count |-> 0, is_mintable |-> FALSE,
     transfer_pausable |-> FALSE, has_blacklist |-> FALSE,
     has_whitelist |-> FALSE]

\* has_whitelist stands for is_anti_whale too (both only add a name to
\* admin_ctrls); it is drawn where no other flag has filled admin_ctrls.
GpData(chain) ==
    {NoGp} \cup
    {gp \in {[ok |-> TRUE, max_holder_percent |-> w, owner_change_balance |-> oc,
      is_honeypot |-> hp, buy_tax |-> IF chain = "sol" THEN 0 ELSE bt,
      sell_tax |-> 0, is_proxy |-> px,
      liquidity_locked |-> ll,
      lp_holder_count |-> IF chain = "sol" THEN 0 ELSE lp,
      ownership_renounced |-> ren, holder_count |-> hc, is_mintable |-> mt,
      transfer_pausable |-> tp, has_blacklist |-> bl, has_whitelist |-> wl] :
        w \in {30, 31}, oc \in BOOLEAN, hp \in BOOLEAN, bt \in {0, 5, 6},
        px \in BOOLEAN, ll \in BOOLEAN, lp \in {1, 2}, ren \in BOOLEAN,
        hc \in {0, 99, 100}, mt \in BOOLEAN, tp \in BOOLEAN, bl \in BOOLEAN,
        wl \in BOOLEAN} :
        gp.has_whitelist
            => ~(gp.is_mintable \/ gp.transfer_pausable \/ gp.has_blacklist)}

\* What the providers answer for one address.
Token(chain, ed, ds, gp) == [chain |-> chain, ed |-> ed, ds |-> ds, gp |-> gp]

\* fetch_audit_info: a placeholder that never finds an audit.
fetch_audit_info == [audited |-> FALSE]

\* detect_admin_controls on the verified source, plus the GoPlus flags appended
\* to it: TRUE when admin_ctrls is not empty.
AdminCtrls(tok) ==
    \/ tok.ed.verified /\ tok.chain # "sol" /\ tok.ed.source_risky
    \/ tok.gp.ok /\ (tok.gp.is_mintable \/ tok.gp.transfer_pausable
                     \/ tok.gp.has_blacklist \/ tok.gp.has_whitelist)

\* market_cap: cg / fdv first, the liquidity when that is 0.
MarketCap(tok) == IF tok.ds.cap # 0 THEN tok.ds.cap ELSE tok.ds.liquidity

\* ownership_renounced: GoPlus' answer, or for Solana without GoPlus data the
\* absence of the authorities.
OwnershipRenounced(tok) ==
    IF tok.gp.ok THEN tok.gp.ownership_renounced
    ELSE IF tok.chain = "sol" THEN ~tok.ed.mint_authority ELSE FALSE

\* is_mintable: goplus_data has already turned the field into a bool, so the
\* comparison with "1" is False whenever GoPlus data is present.
IsMintable(tok) ==
    IF tok.gp.ok THEN FALSE
    ELSE IF tok.chain = "sol" THEN tok.ed.mint_authority ELSE FALSE

\* score += <weight> of each check, by the red flag it appends.
Weight(flag) ==
    CASE flag = "unverified" -> 20
      [] flag = "low_liquidity" -> 20
      [] flag = "new_token" -> 15
      [] flag = "whale" -> 15
      [] flag = "owner_change" -> 15
      [] flag = "low_market_cap" -> 10
      [] flag = "no_audit" -> 20
      [] flag = "admin" -> 20
      [] flag = "honeypot" -> 30
      [] flag = "high_taxes" -> 10
      [] flag = "proxy" -> 15
      [] flag = "unlocked_liquidity" -> 15
      [] flag = "concentrated_lp" -> 10
      [] flag = "not_renounced" -> 15
      [] flag = "low_holders" -> 10
      [] flag = "mintable" -> 10
      [] flag = "pausable" -> 10
      [] flag = "blacklist" -> 15

\* The checks of analyze_token in source order: <<red flag, triggered>>.
Checks(tok) ==
    << <<"unverified", ~tok.ed.verified>>,
       <<"low_liquidity", ~(tok.ds.liquidity >= 500)>>,
       <<"new_token", tok.ds.age_days = None \/ tok.ds.age_days < 7>>,
       <<"whale", ~(tok.gp.max_holder_percent <= 30)>>,
       <<"owner_change", tok.gp.owner_change_balance>>,
       <<"low_market_cap", ~(MarketCap(tok) # 0 /\ MarketCap(tok) >= 1000000)
                             /\ MarketCap(tok) # 0>>,
       <<"no_audit", ~fetch_audit_info.audited>>,
       <<"admin", AdminCtrls(tok)>>,
       <<"honeypot", tok.gp.is_honeypot>>,
       <<"high_taxes", ~(tok.gp.buy_tax = 0 /\ tok.gp.sell_tax = 0)
                         /\ (tok.gp.buy_tax > 5 \/ tok.gp.sell_tax > 5)>>,
       <<"proxy", tok.gp.is_proxy>>,
       <<"unlocked_liquidity", ~tok.gp.liquidity_locked /\ tok.gp.ok>>,
       <<"concentrated_lp", tok.gp.lp_holder_count < 2 /\ tok.chain # "sol"
                              /\ tok.gp.ok>>,
       <<"not_renounced", ~OwnershipRenounced(tok)>>,
       <<"low_holders", tok.gp.ok /\ tok.gp.holder_count > 0
                          /\ ~(tok.gp.holder_count >= 100)>>,
       <<"mintable", IsMintable(tok)>>,
       <<"pausable", tok.gp.transfer_pausable>>,
       <<"blacklist", tok.gp.has_blacklist>> >>

\* score += weight for every check that triggered, in order.
RECURSIVE AddScore(_, _, _)
AddScore(checks, i, score) ==
    IF i > Len(checks) THEN score
    ELSE AddScore(checks, i + 1,
                  IF checks[i][2] THEN score + Weight(checks[i][1]) ELSE score)

RedFlags(checks) == {checks[i][1] : i \in {j \in DOMAIN checks : checks[j][2]}}

Min(a, b) == IF a <= b THEN a ELSE b

\* The bands with their upper ends left out.
StrictLabel(score) ==
    IF score < 20 THEN "Very Low"
    ELSE IF score < 40 THEN "Low"
    ELSE IF score < 60 THEN "Medium"
    ELSE IF score < 80 THEN "High"
    ELSE "Very High"

get_risk_label(score) ==
    IF score <= 20 THEN "Very Low"
    ELSE IF score <= 40 THEN "Low"
    ELSE IF score <= 60 THEN "Medium"
    ELSE IF score <= 80 THEN "High"
    ELSE "Very High"

\* The 'What does this mean?' paragraph of the report.
Meaning(score) ==
    IF score <= 40 THEN "low"
    ELSE IF score <= 60 THEN "medium"
    ELSE "higher"

NoReport == [kind |-> "none"]

\* The part of the message built from the score and the red flags.
RenderReport(score, red_flags) ==
    [kind |-> "report", score |-> score, label |-> get_risk_label(score),
     meaning |-> Meaning(score), red_flags |-> red_flags]

ScoreCap == 100

\* The sum left as it is.
Unclamped(score) == score

\* score = min(score, 100)
Clamp(score) == Min(score, ScoreCap)

ScoreReport(tok) ==
    LET checks == Checks(tok) IN
    RenderReport(Clamp(AddScore(checks, 1, 0)), RedFlags(checks))

(***************************************************************************)
(* Users table, is_premium and can_scan: Update35.py 41-139.               *)
(***************************************************************************)

Users == {"u1", "u2"}

\* DEV_USER_ID: the one user /reset works for.
DEV_USER_ID == "u2"

\* Subscription ids the payment provider hands out: one per paying user.
Subs == {"sub_1", "sub_2"}

SubOf(user_id) == IF user_id = "u1" THEN "sub_1" ELSE "sub_2"

NULL == "NULL"

\* Clock ticks per day: the instants between two ticks of the stored format
\* stand for the microseconds that '%Y-%m-%d %H:%M:%S' drops.
TicksPerDay == 2

\* timedelta(days=30)
PremiumDays == 30

\* The free scans can_scan allows: total_scans < 3.
FreeScans == 3

Timedelta(days) == days * TicksPerDay

\* expiry.strftime('%Y-%m-%d %H:%M:%S'): the instant cut to the stored format.
Strftime(t) == t - (t % TicksPerDay)

\* datetime.strptime(exp, '%Y-%m-%d %H:%M:%S'): the instant a stored text names.
Strptime(exp) == exp

\* A row of CREATE TABLE users; NoRow when the user has none.
NoRow ==
    [present |-> FALSE, is_premium |-> FALSE, subscription_id |-> NULL,
     expiry_date |-> None, total_scans |-> 0]

UpdateRow(tbl, user_id, row) == [tbl EXCEPT ![user_id] = row]

\* stripe.Subscription.retrieve(sub_id).status, or "error" when the call raises.
Retrieve(sub_id, up) ==
    IF ~up \/ sub_id = NULL THEN "error" ELSE stripe.subs[sub_id].status

\* is_premium(user_id) at instant t: <<what it returns, the table it leaves>>.
\* status is the answer of stripe.Subscription.retrieve for the row's sub_id.
is_premium(tbl, user_id, t, status) ==
    LET row == tbl[user_id] IN
    IF ~row.present THEN [ret |-> FALSE, users |-> tbl]
    ELSE IF row.is_premium /\ row.expiry_date # None
            /\ Strptime(row.expiry_date) > t
    THEN [ret |-> TRUE, users |-> tbl]
    ELSE IF row.subscription_id # NULL
    THEN CASE status = "active" ->
                [ret |-> TRUE,
                 users |-> UpdateRow(tbl, user_id,
                     [row EXCEPT !.expiry_date = Strftime(t + Timedelta(PremiumDays)),
                                 !.is_premium = TRUE])]
           [] status = "canceled" ->
                [ret |-> FALSE,
                 users |-> UpdateRow(tbl, user_id,
                     [row EXCEPT !.is_premium = FALSE, !.subscription_id = NULL,
                                 !.expiry_date = None])]
           [] status = "error" ->
                [ret |-> FALSE,
                 users |-> UpdateRow(tbl, user_id, [row EXCEPT !.is_premium = FALSE])]
           [] OTHER -> [ret |-> FALSE, users |-> tbl]
    ELSE [ret |-> FALSE, users |-> tbl]

\* The quota applied to every user, premium or not.
QuotaForAll(tbl, user_id, t, status) ==
    LET row == tbl[user_id] IN
    IF ~row.present
    THEN [ret |-> TRUE, users |-> UpdateRow(tbl, user_id, [NoRow EXCEPT !.present = TRUE])]
    ELSE IF row.total_scans < FreeScans
    THEN [ret |-> TRUE,
          users |-> UpdateRow(tbl, user_id,
                              [row EXCEPT !.total_scans = row.total_scans + 1])]
    ELSE [ret |-> FALSE, users |-> tbl]

\* can_scan(user_id): <<what it returns, the table it leaves>>.
can_scan(tbl, user_id, t, status) ==
    LET p == is_premium(tbl, user_id, t, status)
        row == p.users[user_id]
    IN  IF p.ret THEN [ret |-> TRUE, users |-> p.users]
        ELSE IF ~row.present
        THEN [ret |-> TRUE,
              users |-> UpdateRow(p.users, user_id, [NoRow EXCEPT !.present = TRUE])]
        ELSE IF row.total_scans < FreeScans
        THEN [ret |-> TRUE,
              users |-> UpdateRow(p.users, user_id,
                                  [row EXCEPT !.total_scans = row.total_scans + 1])]
        ELSE [ret |-> FALSE, users |-> p.users]

\* What is_premium's poll of the provider sees for this user's row.
StatusOf(tbl, user_id, up) == Retrieve(tbl[user_id].subscription_id, up)

(***************************************************************************)
(* History of scan requests, kept for users who were never premium and     *)
(* never reset: how many can_scan calls they made and how many were True.  *)
(***************************************************************************)

Dirty == [asked |-> 0, granted |-> 0, clean |-> FALSE]

Fresh == [asked |-> 0, granted |-> 0, clean |-> TRUE]

\* The history after a step that leaves table tbl2, in which `asker` ("" for
\* nobody) called can_scan with answer `granted` and `resetter` ran /reset.
HistNext(tbl2, asker, granted, resetter) ==
    [u \in Users |->
        IF ~hist[u].clean \/ tbl2[u].is_premium \/ u = resetter THEN Dirty
        ELSE IF u = asker
        THEN [hist[u] EXCEPT !.asked = @ + 1,
                             !.granted = IF granted THEN @ + 1 ELSE @]
        ELSE hist[u]]

(***************************************************************************)
(* The payment provider and the webhook: Update35.py 54-98, 141-159.       *)
(***************************************************************************)

\* A subscription the provider has not created yet.
NoSub == [owner |-> "", status |-> "none"]

\* Events the provider may deliver now: it delivers them in any order and may
\* deliver one again.  checkout.session.completed carries client_reference_id
\* and subscription; the others carry the subscription only.
Events ==
    {[type |-> "checkout.session.completed", user |-> stripe.subs[s].owner,
      sub |-> s] : s \in {x \in Subs : stripe.subs[x].status # "none"}}
    \cup {[type |-> "invoice.payment_succeeded", user |-> "", sub |-> s] :
             s \in {x \in Subs : stripe.subs[x].status # "none"}}
    \cup {[type |-> "customer.subscription.deleted", user |-> "", sub |-> s] :
             s \in {x \in Subs : stripe.subs[x].status = "canceled"}}
    \cup {[type |-> "customer.updated", user |-> "", sub |-> NULL]}

\* The row c.fetchone() returns for SELECT ... WHERE subscription_id = ?
HolderOf(tbl, sub_id) ==
    IF \E u \in Users : tbl[u].present /\ tbl[u].subscription_id = sub_id
    THEN CHOOSE u \in Users : tbl[u].present /\ tbl[u].subscription_id = sub_id
    ELSE ""

\* The subscription recorded with the expiry at the processing time itself.
CheckoutExpiresNow(tbl, ev, t) ==
    [u \in Users |->
        IF tbl[u].present /\ u = ev.user
        THEN [tbl[u] EXCEPT !.is_premium = TRUE, !.subscription_id = ev.sub,
                            !.expiry_date = Strftime(t)]
        ELSE tbl[u]]

\* if event['type'] == 'checkout.session.completed'
WebhookCheckout(tbl, ev, t) ==
    [u \in Users |->
        IF tbl[u].present /\ u = ev.user
        THEN [tbl[u] EXCEPT !.is_premium = TRUE, !.subscription_id = ev.sub,
                            !.expiry_date = Strftime(t + Timedelta(PremiumDays))]
        ELSE tbl[u]]

\* elif event['type'] == 'invoice.payment_succeeded'
WebhookInvoice(tbl, ev) ==
    LET user_id == HolderOf(tbl, ev.sub) IN
    IF user_id = "" THEN tbl
    ELSE UpdateRow(tbl, user_id,
             [tbl[user_id] EXCEPT !.expiry_date =
                 Strftime(Strptime(tbl[user_id].expiry_date) + Timedelta(PremiumDays))])

\* The UPDATE of the deleted branch without its WHERE clause.
DeletedEverywhere(tbl, ev) ==
    [u \in Users |->
        IF tbl[u].present
        THEN [tbl[u] EXCEPT !.is_premium = FALSE, !.subscription_id = NULL,
                            !.expiry_date = None]
        ELSE tbl[u]]

\* elif event['type'] == 'customer.subscription.deleted'
WebhookDeleted(tbl, ev) ==
    [u \in Users |->
        IF tbl[u].present /\ tbl[u].subscription_id = ev.sub
        THEN [tbl[u] EXCEPT !.is_premium = FALSE, !.subscription_id = NULL,
                            !.expiry_date = None]
        ELSE tbl[u]]

\* strptime(None) raises TypeError when the matching row has no expiry_date: the
\* request fails before its UPDATE.
WebhookRaises(tbl, ev) ==
    /\ ev.type = "invoice.payment_succeeded"
    /\ HolderOf(tbl, ev.sub) # ""
    /\ tbl[HolderOf(tbl, ev.sub)].expiry_date = None

\* The branch of webhook() an accepted event takes.
WebhookBranch(tbl, ev, t) ==
    CASE ev.type = "checkout.session.completed" -> WebhookCheckout(tbl, ev, t)
      [] ev.type = "invoice.payment_succeeded" -> WebhookInvoice(tbl, ev)
      [] ev.type = "customer.subscription.deleted" -> WebhookDeleted(tbl, ev)
      [] OTHER -> tbl

\* Every request taken as verified.
AcceptAll(valid) == TRUE

\* stripe.Webhook.construct_event: the payload parses and the signature matches.
ConstructEvent(valid) == valid

\* POST /webhook with event ev; valid = FALSE when the payload is not JSON or
\* the stripe-signature header does not verify.
webhook(ev, valid) ==
    /\ IF ConstructEvent(valid) /\ WebhookRaises(users, ev)
       THEN /\ users' = users
            /\ http' = [status |-> 500, type |-> ev.type]
       ELSE IF ConstructEvent(valid)
       THEN /\ users' = WebhookBranch(users, ev, now)
            /\ http' = [status |-> 200, type |-> ev.type]
       ELSE /\ users' = users
            /\ http' = [status |-> 400, type |-> ""]
    /\ hist' = HistNext(users', "", FALSE, "")
    /\ UNCHANGED <<alerts, now, user_data, stripe, sweep, sent, ret, report,
                   cursor, calls>>

\* The user pays through a checkout session made for them: the provider
\* creates their subscription.
Pay(u) ==
    /\ u \in stripe.sessions
    /\ stripe.subs[SubOf(u)].status = "none"
    /\ stripe' = [stripe EXCEPT !.subs[SubOf(u)] = [owner |-> u, status |-> "active"]]
    /\ UNCHANGED <<users, alerts, now, user_data, sweep, sent, http, ret, report, hist,
                   cursor, calls>>

\* The subscription ends at the provider.
Cancel(s) ==
    /\ stripe.subs[s].status = "active"
    /\ stripe' = [stripe EXCEPT !.subs[s].status = "canceled"]
    /\ UNCHANGED <<users, alerts, now, user_data, sweep, sent, http, ret, report, hist,
                   cursor, calls>>

\* create_checkout_session: the session exists at the provider when the call
\* succeeds (up); None is returned otherwise.
create_checkout_session(user_id, up) ==
    IF up THEN [stripe EXCEPT !.sessions = @ \cup {user_id}] ELSE stripe

\* Time passes.
Tick(d) ==
    /\ now' = now + d
    /\ UNCHANGED <<users, alerts, user_data, stripe, sweep, sent, http, ret, report, hist,
                   cursor, calls>>

(***************************************************************************)
(* Bot handlers: Update35.py 595-633, 1031-1191.                           *)
(***************************************************************************)

Addrs == {"a1"}

Keys == Users \X Addrs

\* float("nan"): a percent text float() accepts that is no number.  SQLite
\* stores it as NULL and Update32 keeps it in its dict: alert_check raises on
\* either (TypeError, decimal.InvalidOperation).
NaN == -2

NoAlert ==
    [present |-> FALSE, set_value |-> 0, percent |-> 0, direction |-> "",
     alert_type |-> "", premium |-> FALSE]

NoSetup ==
    [present |-> FALSE, addr |-> "", direction |-> "", alert_type |-> "",
     premium |-> FALSE]

\* No token: neither the explorer nor DexScreener knows the address.
NoToken == [chain |-> "none"]

\* What a handler answers to the sender, and what is_premium returned to it
\* (FALSE when it did not ask).
Reply(what, premium) == [reply |-> what, premium |-> premium]

\* analyze_token(update, context, addr) for user_id; tok is what the data
\* providers answer for addr, up whether the payment provider answers.
analyze_token(user_id, tok, up) ==
    LET pr == is_premium(users, user_id, now, StatusOf(users, user_id, up))
        cs == can_scan(users, user_id, now, StatusOf(users, user_id, up))
    IN
    /\ users' = cs.users
    /\ hist' = HistNext(cs.users, user_id, cs.ret, "")
    /\ IF ~cs.ret
       THEN /\ stripe' = create_checkout_session(user_id, up)
            /\ ret' = Reply("used_free_scans", FALSE)
            /\ report' = NoReport
       ELSE IF tok = NoToken
       THEN /\ ret' = Reply("no_info", pr.ret)
            /\ report' = NoReport
            /\ stripe' = stripe
       ELSE /\ ret' = Reply("report", pr.ret)
            /\ report' = ScoreReport(tok)
            /\ stripe' = stripe
    /\ UNCHANGED <<alerts, now, user_data, sweep, sent, http, cursor, calls>>

MenuData == {"alert", "price_alerts", "liq_alerts"}

SetupData == {"price_inc", "price_dec", "liq_inc", "liq_dec"}

\* The alert buttons without the premium check.
UngatedCallback(user_id, data, addr, up) ==
    LET p == is_premium(users, user_id, now, StatusOf(users, user_id, up)) IN
    /\ users' = p.users
    /\ hist' = HistNext(p.users, "", FALSE, "")
    /\ IF data \in MenuData
       THEN /\ ret' = Reply("choose", p.ret)
            /\ user_data' = user_data
       ELSE /\ ret' = Reply("enter_percent", p.ret)
            /\ user_data' = [user_data EXCEPT ![user_id] =
                   [present |-> TRUE, addr |-> addr,
                    direction |-> IF data \in {"price_inc", "liq_inc"}
                                  THEN "increase" ELSE "decrease",
                    alert_type |-> IF data \in {"price_inc", "price_dec"}
                                   THEN "price" ELSE "liquidity",
                    premium |-> p.ret]]
    /\ UNCHANGED <<alerts, now, stripe, sweep, sent, http, report,
                   cursor, calls>>

\* handle_callback for the buttons that lead to an alert; data is the prefix of
\* callback_data and addr the address it carries.
handle_callback(user_id, data, addr, up) ==
    LET p == is_premium(users, user_id, now, StatusOf(users, user_id, up)) IN
    /\ users' = p.users
    /\ hist' = HistNext(p.users, "", FALSE, "")
    /\ IF ~p.ret
       THEN /\ ret' = Reply("premium_feature", FALSE)
            /\ user_data' = user_data
       ELSE IF data \in MenuData
       THEN /\ ret' = Reply("choose", TRUE)
            /\ user_data' = user_data
       ELSE /\ ret' = Reply("enter_percent", TRUE)
            /\ user_data' = [user_data EXCEPT ![user_id] =
                   [present |-> TRUE, addr |-> addr,
                    direction |-> IF data \in {"price_inc", "liq_inc"}
                                  THEN "increase" ELSE "decrease",
                    alert_type |-> IF data \in {"price_inc", "price_dec"}
                                   THEN "price" ELSE "liquidity",
                    premium |-> p.ret]]
    /\ UNCHANGED <<alerts, now, stripe, sweep, sent, http, report,
                   cursor, calls>>

\* reset_scans: /reset
reset_scans(user_id) ==
    /\ IF user_id # DEV_USER_ID
       THEN /\ users' = users
            /\ ret' = Reply("developers_only", FALSE)
            /\ hist' = hist
       ELSE /\ users' = IF users[user_id].present
                        THEN UpdateRow(users, user_id,
                                       [users[user_id] EXCEPT !.total_scans = 0])
                        ELSE users
            /\ ret' = Reply("reset", FALSE)
            /\ hist' = HistNext(users', "", FALSE, user_id)
    /\ UNCHANGED <<alerts, now, user_data, stripe, sweep, sent, http, report,
                   cursor, calls>>

\* What the user types: a percent float() parses, or other text; address
\* tells whether the text holds a contract address.
Text(percent, address) == [percent |-> percent, address |-> address]

\* handle_token: a text message of user_id.  cur is what get_current_price /
\* get_current_liquidity answer (0 stands for "0"), tok and up as in
\* analyze_token.
handle_token(user_id, text, cur, tok, up) ==
    LET setup == user_data[user_id] IN
    IF setup.present
    THEN /\ IF text.percent = None
            THEN /\ ret' = Reply("invalid_percent", FALSE)
                 /\ UNCHANGED <<alerts, user_data, sent, sweep>>
            ELSE IF cur = 0
            THEN /\ ret' = Reply("could_not_fetch", FALSE)
                 /\ user_data' = [user_data EXCEPT ![user_id] = NoSetup]
                 /\ UNCHANGED <<alerts, sent, sweep>>
            ELSE /\ alerts' = [alerts EXCEPT ![<<user_id, setup.addr>>] =
                        [present |-> TRUE, set_value |-> cur,
                         percent |-> text.percent, direction |-> setup.direction,
                         alert_type |-> setup.alert_type,
                         premium |-> setup.premium]]
                 /\ sent' = [sent EXCEPT ![<<user_id, setup.addr>>] = 0]
                 /\ sweep' = IF sweep.pc = "send"
                              THEN [sweep EXCEPT !.replaced =
                                       @ \cup {<<user_id, setup.addr>>}]
                              ELSE sweep
                 /\ user_data' = [user_data EXCEPT ![user_id] = NoSetup]
                 /\ ret' = Reply("alert_set", FALSE)
         /\ UNCHANGED <<users, now, stripe, http, report, hist, cursor, calls>>
    ELSE IF text.address
    THEN analyze_token(user_id, tok, up)
    ELSE /\ ret' = Reply("send_valid_address", FALSE)
         /\ UNCHANGED <<users, alerts, now, user_data, stripe, sweep, sent, http,
                        report, hist, cursor, calls>>

\* premium_status: /premium_status asks is_premium once, and twice more when
\* the first answer is False.
premium_status(user_id, up) ==
    LET p1 == is_premium(users, user_id, now, StatusOf(users, user_id, up))
        p2 == is_premium(p1.users, user_id, now, StatusOf(p1.users, user_id, up))
        p3 == is_premium(p2.users, user_id, now, StatusOf(p2.users, user_id, up))
    IN  /\ IF p1.ret
           THEN /\ users' = p1.users
                /\ ret' = Reply("premium", TRUE)
           ELSE /\ users' = p3.users
                /\ ret' = Reply(IF p3.ret THEN "premium_activated"
                                ELSE "no_subscription", p3.ret)
        /\ hist' = HistNext(users', "", FALSE, "")
        /\ UNCHANGED <<alerts, now, user_data, stripe, sweep, sent, http, report,
                       cursor, calls>>

(***************************************************************************)
(* The shared cursor: conn / c (Update35.py 41-42), used by the webhook    *)
(* thread (1290-1291) and by the bot's handlers with no lock.  Each call   *)
(* of c.execute and c.fetchone is one step; the two threads take their     *)
(* steps in any order.                                                     *)
(***************************************************************************)

\* c after a call of c.execute by a thread: the rows of the statement (none
\* for an UPDATE) and no row fetched yet.
execute(by, rows) == [by |-> by, rows |-> rows, pos |-> 0]

\* fetchone() on a cursor with no row left.
NoneRow == [stmt |-> "None"]

\* c.fetchone(): the next row of the statement executed last, or None.
fetchone(cur) ==
    IF cur.pos < Len(cur.rows) THEN cur.rows[cur.pos + 1] ELSE NoneRow

\* c after that fetchone().
AfterFetch(cur) ==
    IF cur.pos < Len(cur.rows) THEN [cur EXCEPT !.pos = @ + 1] ELSE cur

\* c after the two CREATE TABLE statements of the import.
Imported == execute("main", <<>>)

NoCalls ==
    [bot |-> [pc |-> "idle", user_id |-> ""],
     web |-> [pc |-> "idle", type |-> "", sub |-> NULL]]

\* SELECT is_premium, expiry_date, subscription_id FROM users WHERE user_id = ?
SelectPremium(tbl, user_id) ==
    IF tbl[user_id].present
    THEN <<[stmt |-> "is_premium", is_premium |-> tbl[user_id].is_premium,
            expiry_date |-> tbl[user_id].expiry_date,
            subscription_id |-> tbl[user_id].subscription_id]>>
    ELSE <<>>

\* SELECT user_id, expiry_date FROM users WHERE subscription_id = ?
SelectHolder(tbl, sub_id) ==
    IF HolderOf(tbl, sub_id) # ""
    THEN <<[stmt |-> "invoice", user_id |-> HolderOf(tbl, sub_id),
            expiry_date |-> tbl[HolderOf(tbl, sub_id)].expiry_date]>>
    ELSE <<>>

\* is_premium(user_id) from its fetchone() on, row being what fetchone()
\* returned for the SELECT of is_premium: what it returns, the table it leaves
\* and whether it executed an UPDATE.
is_premium_row(tbl, user_id, row, t, status) ==
    IF row.is_premium /\ row.expiry_date # None /\ Strptime(row.expiry_date) > t
    THEN [ret |-> TRUE, users |-> tbl, wrote |-> FALSE]
    ELSE IF row.subscription_id # NULL
    THEN CASE status = "active" ->
                [ret |-> TRUE, wrote |-> TRUE,
                 users |-> UpdateRow(tbl, user_id,
                     [tbl[user_id] EXCEPT
                         !.expiry_date = Strftime(t + Timedelta(PremiumDays)),
                         !.is_premium = TRUE])]
           [] status = "canceled" ->
                [ret |-> FALSE, wrote |-> TRUE,
                 users |-> UpdateRow(tbl, user_id,
                     [tbl[user_id] EXCEPT !.is_premium = FALSE,
                                          !.subscription_id = NULL,
                                          !.expiry_date = None])]
           [] status = "error" ->
                [ret |-> FALSE, wrote |-> TRUE,
                 users |-> UpdateRow(tbl, user_id,
                     [tbl[user_id] EXCEPT !.is_premium = FALSE])]
           [] OTHER -> [ret |-> FALSE, users |-> tbl, wrote |-> FALSE]
    ELSE [ret |-> FALSE, users |-> tbl, wrote |-> FALSE]

\* handle_callback on the alert button, up to the c.execute of is_premium.
CallbackExecute(user_id) ==
    /\ calls.bot.pc = "idle"
    /\ cursor' = execute("bot", SelectPremium(users, user_id))
    /\ calls' = [calls EXCEPT !.bot = [pc |-> "fetch", user_id |-> user_id]]
    /\ UNCHANGED <<users, alerts, now, user_data, stripe, sweep, sent, http, ret,
                   report, hist>>

\* handle_callback on the alert button from the c.fetchone() of is_premium to
\* its reply.  A row of another statement has not three columns: unpacking it
\* raises ValueError.
CallbackFetch(up) ==
    /\ calls.bot.pc = "fetch"
    /\ LET user_id == calls.bot.user_id
           row == fetchone(cursor)
       IN  IF row = NoneRow
           THEN /\ users' = users
                /\ cursor' = AfterFetch(cursor)
                /\ ret' = Reply("premium_feature", FALSE)
           ELSE IF row.stmt # "is_premium"
           THEN /\ users' = users
                /\ cursor' = AfterFetch(cursor)
                /\ ret' = Reply("ValueError", FALSE)
           ELSE LET p == is_premium_row(users, user_id, row, now,
                                        Retrieve(row.subscription_id, up))
                IN  /\ users' = p.users
                    /\ cursor' = IF p.wrote THEN execute("bot", <<>>)
                                 ELSE AfterFetch(cursor)
                    /\ ret' = Reply(IF p.ret THEN "choose" ELSE "premium_feature",
                                    p.ret)
    /\ calls' = [calls EXCEPT !.bot = NoCalls.bot]
    /\ hist' = HistNext(users', "", FALSE, "")
    /\ UNCHANGED <<alerts, now, user_data, stripe, sweep, sent, http, report>>

\* POST /webhook up to its first call on c: the whole request unless the
\* event is invoice.payment_succeeded, whose SELECT is executed here and
\* fetched in WebhookFetch.
WebhookExecute(ev, valid) ==
    /\ calls.web.pc = "idle"
    /\ IF ~ConstructEvent(valid)
       THEN /\ http' = [status |-> 400, type |-> ""]
            /\ UNCHANGED <<users, cursor, calls>>
       ELSE IF ev.type = "invoice.payment_succeeded"
       THEN /\ cursor' = execute("web", SelectHolder(users, ev.sub))
            /\ calls' = [calls EXCEPT !.web =
                            [pc |-> "fetch", type |-> ev.type, sub |-> ev.sub]]
            /\ UNCHANGED <<users, http>>
       ELSE /\ users' = WebhookBranch(users, ev, now)
            /\ cursor' = IF ev.type = "customer.updated" THEN cursor
                         ELSE execute("web", <<>>)
            /\ http' = [status |-> 200, type |-> ev.type]
            /\ calls' = calls
    /\ hist' = HistNext(users', "", FALSE, "")
    /\ UNCHANGED <<alerts, now, user_data, stripe, sweep, sent, ret, report>>

\* The invoice.payment_succeeded branch from its c.fetchone() on.  A row of
\* another statement has not two columns (ValueError), and strptime(None)
\* raises TypeError: the request fails.
WebhookFetch ==
    /\ calls.web.pc = "fetch"
    /\ LET row == fetchone(cursor) IN
       IF row = NoneRow
       THEN /\ users' = users
            /\ cursor' = AfterFetch(cursor)
            /\ http' = [status |-> 200, type |-> calls.web.type]
       ELSE IF row.stmt # "invoice" \/ row.expiry_date = None
       THEN /\ users' = users
            /\ cursor' = AfterFetch(cursor)
            /\ http' = [status |-> 500, type |-> calls.web.type]
       ELSE /\ users' = UpdateRow(users, row.user_id,
                   [users[row.user_id] EXCEPT !.expiry_date =
                       Strftime(Strptime(row.expiry_date) + Timedelta(PremiumDays))])
            /\ cursor' = execute("web", <<>>)
            /\ http' = [status |-> 200, type |-> calls.web.type]
    /\ calls' = [calls EXCEPT !.web = NoCalls.web]
    /\ hist' = HistNext(users', "", FALSE, "")
    /\ UNCHANGED <<alerts, now, user_data, stripe, sweep, sent, ret, report>>

(***************************************************************************)
(* alert_check: Update35.py 1231-1287 (Update32.py 1090-1138).             *)
(***************************************************************************)

\* The sign of float(1 + percent / 100) - (1 + percent / 100) and of
\* float(1 - percent / 100) - (1 - percent / 100) in IEEE-754 double
\* arithmetic, which Decimal(float) keeps exactly: 1.05 and 1.1 round up, 0.95
\* rounds down and 0.9 rounds up.
FloatError(direction, percent) ==
    IF direction = "increase" THEN 1
    ELSE IF percent = 5 THEN -1 ELSE 1

\* current_dec >= threshold / current_dec <= threshold, with
\* threshold = Decimal(set_value) * Decimal(1 +- percent / 100).  The values are
\* whole numbers of a few digits, so the products differ by far more than the
\* float's rounding error unless they are equal.
Fires(alert, current) ==
    LET exact == alert.set_value *
                 (IF alert.direction = "increase" THEN 100 + alert.percent
                  ELSE 100 - alert.percent)
        err == FloatError(alert.direction, alert.percent)
    IN  IF alert.direction = "increase"
        THEN current * 100 > exact \/ (current * 100 = exact /\ err <= 0)
        ELSE current * 100 < exact \/ (current * 100 = exact /\ err >= 0)

\* prices.get(addr) if alert_type == 'price' else liquidities.get(addr); 0 is
\* None: the value was not fetched.
CurrentOf(alert, addr, prices, liquidities) ==
    IF alert.alert_type = "price" THEN prices[addr] ELSE liquidities[addr]

Idle ==
    [pc |-> "idle", rows |-> [k \in Keys |-> NoAlert], order |-> <<>>, idx |-> 0,
     prices |-> [a \in Addrs |-> 0], liquidities |-> [a \in Addrs |-> 0],
     to_delete |-> {}, replaced |-> {}]

\* The loop over the alerts from position i on, up to the first await:
\* "send" at the first alert that fires, "raise" at an alert whose percent is
\* NaN (the comparison of a Decimal with NaN raises InvalidOperation), "done"
\* past the last alert.
RECURSIVE Loop(_, _)
Loop(sw, i) ==
    IF i > Len(sw.order) THEN [pc |-> "done", idx |-> i]
    ELSE LET key == sw.order[i]
             alert == sw.rows[key]
             current == CurrentOf(alert, key[2], sw.prices, sw.liquidities)
         IN  IF current = 0 THEN Loop(sw, i + 1)
             ELSE IF alert.percent = NaN THEN [pc |-> "raise", idx |-> i]
             ELSE IF Fires(alert, current) THEN [pc |-> "send", idx |-> i]
             ELSE Loop(sw, i + 1)

\* for user_id, addr in to_delete: DELETE FROM alerts WHERE user_id = ? AND addr = ?
DeleteAlerts(tbl, to_delete) ==
    [k \in Keys |-> IF k \in to_delete THEN NoAlert ELSE tbl[k]]

\* The job runs from position i to its next await, or to its end.
Resume(sw, i) ==
    LET at == Loop(sw, i) IN
    CASE at.pc = "send" ->
            /\ sweep' = [sw EXCEPT !.pc = "send", !.idx = at.idx]
            /\ alerts' = alerts
      [] at.pc = "raise" ->
            /\ sweep' = Idle
            /\ alerts' = alerts
      [] OTHER ->
            /\ sweep' = Idle
            /\ alerts' = DeleteAlerts(alerts, sw.to_delete)

\* Orders in which the rows of the user-keyed dict can be walked: the alerts
\* of one user are adjacent.
Grouped(order) ==
    \A i, j, k \in DOMAIN order :
        (i < j /\ j < k /\ order[i][1] = order[k][1]) => order[j][1] = order[i][1]

Orders(keys) ==
    {o \in [1..Cardinality(keys) -> keys] :
        /\ \A i, j \in DOMAIN o : i # j => o[i] # o[j]
        /\ Grouped(o)}

\* alert_check starts: it reads the alerts, fetches the price of every address
\* with a price alert and the liquidity of every address with another alert
\* (fp, fl: what DexScreener answers), then walks the alerts.
alert_check(order, fp, fl) ==
    /\ sweep.pc = "idle"
    /\ LET stored == {k \in Keys : alerts[k].present}
           need_price == {k[2] : k \in {x \in stored : alerts[x].alert_type = "price"}}
           need_liq == {k[2] : k \in {x \in stored : alerts[x].alert_type # "price"}}
           sw == [pc |-> "idle", rows |-> alerts, order |-> order, idx |-> 0,
                  prices |-> [a \in Addrs |-> IF a \in need_price THEN fp[a] ELSE 0],
                  liquidities |-> [a \in Addrs |-> IF a \in need_liq THEN fl[a] ELSE 0],
                  to_delete |-> {}, replaced |-> {}]
       IN  /\ order \in Orders(stored)
           /\ Resume(sw, 1)
    /\ UNCHANGED <<users, now, user_data, stripe, sent, http, ret, report, hist,
                   cursor, calls>>

\* await context.bot.send_message(...) returns (ok) or raises.  The
\* notification is that of the alert the job read: it counts for the stored
\* alert unless handle_token wrote the key meanwhile.
send_message(ok) ==
    /\ sweep.pc = "send"
    /\ LET key == sweep.order[sweep.idx] IN
       IF ok
       THEN /\ sent' = IF key \in sweep.replaced THEN sent
                        ELSE [sent EXCEPT ![key] = @ + 1]
            /\ Resume([sweep EXCEPT !.to_delete = @ \cup {key}], sweep.idx + 1)
       ELSE /\ sent' = sent
            /\ sweep' = Idle
            /\ alerts' = alerts
    /\ UNCHANGED <<users, now, user_data, stripe, http, ret, report, hist,
                   cursor, calls>>

(***************************************************************************)
(* Specifications.                                                         *)
(***************************************************************************)

\* Bounds of the model.
MaxPeriods == 2     \* subscription periods an expiry_date may lie ahead
MaxAsked == 5       \* scan requests counted per user
MaxSent == 1        \* notifications counted per alert

\* The state after the module is imported: empty tables, nothing pending.
Init ==
    /\ users = [u \in Users |-> NoRow]
    /\ alerts = [k \in Keys |-> NoAlert]
    /\ now = 0
    /\ user_data = [u \in Users |-> NoSetup]
    /\ stripe = [sessions |-> {}, subs |-> [s \in Subs |-> NoSub]]
    /\ sweep = Idle
    /\ sent = [k \in Keys |-> 0]
    /\ http = [status |-> 0, type |-> ""]
    /\ ret = Reply("", FALSE)
    /\ report = NoReport
    /\ hist = [u \in Users |-> Fresh]
    /\ cursor = Imported
    /\ calls = NoCalls

\* One token, for the runs that are not about the score.
SomeToken ==
    Token("eth", [verified |-> TRUE, source_risky |-> FALSE, mint_authority |-> FALSE],
          [liquidity |-> 500, cap |-> 1000000, age_days |-> 7], NoGp)

Percents == {5, 10}

\* The clock moves by one tick from a whole day, or by a subscription period.
Clock ==
    \E d \in {1, Timedelta(PremiumDays)} :
        /\ now + d <= Timedelta(PremiumDays) + 1
        /\ d = 1 => now % TicksPerDay = 0
        /\ Tick(d)

\* The provider delivers an event, or somebody posts a request that does not
\* verify (whatever it holds: the event of such a request is never read);
\* renewals stop MaxPeriods ahead.
Deliver ==
    \E ev \in Events, valid \in BOOLEAN :
        /\ valid \/ ev.type = "customer.updated"
        /\ \A u \in Users :
               users[u].expiry_date + Timedelta(PremiumDays)
                   <= MaxPeriods * Timedelta(PremiumDays)
        /\ webhook(ev, valid)

\* A text message that is no answer to an alert setup: an address (with what
\* the providers know of it) or other text.
Message(u, toks) ==
    \/ \E tok \in toks, up \in BOOLEAN :
           handle_token(u, Text(None, TRUE), 0, tok, up)
    \/ handle_token(u, Text(None, FALSE), 0, NoToken, TRUE)

\* The free quota: the messages and commands of users who never pay, each
\* user's scan requests counted up to MaxAsked.
NextQuota ==
    \/ \E u \in Users : hist[u].asked < MaxAsked /\ Message(u, {NoToken, SomeToken})
    \/ \E u \in Users : reset_scans(u)
    \/ \E u \in Users, up \in BOOLEAN : premium_status(u, up)

SpecQuota == Init /\ [][NextQuota]_vars

\* Billing starts from the same state, without the scan histories.
InitBilling ==
    /\ users = [u \in Users |-> NoRow]
    /\ alerts = [k \in Keys |-> NoAlert]
    /\ now = 0
    /\ user_data = [u \in Users |-> NoSetup]
    /\ stripe = [sessions |-> {}, subs |-> [s \in Subs |-> NoSub]]
    /\ sweep = Idle
    /\ sent = [k \in Keys |-> 0]
    /\ http = [status |-> 0, type |-> ""]
    /\ ret = Reply("", FALSE)
    /\ report = NoReport
    /\ hist = [u \in Users |-> Dirty]
    /\ cursor = Imported
    /\ calls = NoCalls

\* Billing: scans, /reset, /premium_status, the webhook and the provider.
Next ==
    \/ \E u \in Users : Message(u, {SomeToken})
    \/ \E u \in Users : reset_scans(u)
    \/ \E u \in Users, up \in BOOLEAN : premium_status(u, up)
    \/ Deliver
    \/ \E u \in Users : Pay(u)
    \/ \E s \in Subs : Cancel(s)
    \/ Clock

Spec == InitBilling /\ [][Next]_vars

\* The tables of tokentrust.db when the bot restarts after both users have
\* used their free scans and u1 was sent a checkout link.
InitGate ==
    /\ users = [u \in Users |-> [NoRow EXCEPT !.present = TRUE,
                                               !.total_scans = FreeScans]]
    /\ alerts = [k \in Keys |-> NoAlert]
    /\ now = 0
    /\ user_data = [u \in Users |-> NoSetup]
    /\ stripe = [sessions |-> {"u1"}, subs |-> [s \in Subs |-> NoSub]]
    /\ sweep = Idle
    /\ sent = [k \in Keys |-> 0]
    /\ http = [status |-> 0, type |-> ""]
    /\ ret = Reply("", FALSE)
    /\ report = NoReport
    /\ hist = [u \in Users |-> Dirty]
    /\ cursor = Imported
    /\ calls = NoCalls

\* The alert buttons and the text that answers them, while subscriptions
\* start, lapse and end.
NextGate ==
    \/ \E u \in Users, data \in MenuData \cup SetupData, addr \in Addrs,
          up \in BOOLEAN :
          handle_callback(u, data, addr, up)
    \/ \E u \in Users, percent \in {None, 10}, cur \in {0, 100} :
          handle_token(u, Text(percent, FALSE), cur, NoToken, TRUE)
    \/ Deliver
    \/ \E u \in Users : Pay(u)
    \/ \E s \in Subs : Cancel(s)
    \/ Clock

SpecGate == InitGate /\ [][NextGate]_vars

\* The tables of tokentrust.db when the bot restarts with both users
\* subscribed and no alert set.
InitAlerts ==
    /\ users = [u \in Users |->
                   [present |-> TRUE, is_premium |-> TRUE,
                    subscription_id |-> SubOf(u),
                    expiry_date |-> Timedelta(PremiumDays),
                    total_scans |-> FreeScans]]
    /\ alerts = [k \in Keys |-> NoAlert]
    /\ now = 0
    /\ user_data = [u \in Users |-> NoSetup]
    /\ stripe = [sessions |-> Users,
                 subs |-> [s \in Subs |->
                     [owner |-> CHOOSE u \in Users : SubOf(u) = s,
                      status |-> "active"]]]
    /\ sweep = Idle
    /\ sent = [k \in Keys |-> 0]
    /\ http = [status |-> 0, type |-> ""]
    /\ ret = Reply("", FALSE)
    /\ report = NoReport
    /\ hist = [u \in Users |-> Dirty]
    /\ cursor = Imported
    /\ calls = NoCalls

\* What DexScreener answers for a price or a liquidity; 0 is "0".
Fetched == {0, 90, 95, 110}

\* Alerts are set up and swept: a sweep starts while no alert has been
\* notified MaxSent times, and while it awaits a send at most one alert is set.
NextAlerts ==
    \/ \E u \in Users, data \in {"price_inc", "liq_dec"}, addr \in Addrs :
          handle_callback(u, data, addr, TRUE)
    \/ \E u \in Users, percent \in Percents \cup {NaN} :
          /\ user_data[u].present
          /\ sweep.pc = "idle" \/ alerts = sweep.rows
          /\ handle_token(u, Text(percent, FALSE), 100, NoToken, TRUE)
    \/ \E order \in Orders({k \in Keys : alerts[k].present}),
          fp \in [Addrs -> Fetched], fl \in [Addrs -> Fetched] :
          /\ \A k \in Keys : sent[k] < MaxSent
          /\ alert_check(order, fp, fl)
    \/ \E ok \in BOOLEAN : send_message(ok)

SpecAlerts == InitAlerts /\ [][NextAlerts]_vars

\* The job starts: any sweep, while no alert has been notified more than
\* MaxSent times.
StartSweep ==
    \E order \in Orders({k \in Keys : alerts[k].present}),
       fp \in [Addrs -> Fetched], fl \in [Addrs -> Fetched] :
       /\ \A k \in Keys : sent[k] <= MaxSent
       /\ alert_check(order, fp, fl)

\* Sweep after sweep with every send succeeding; the percent is any text
\* float() accepts.
NextOneShot ==
    \/ \E u \in Users, data \in {"price_inc", "liq_dec"}, addr \in Addrs :
          handle_callback(u, data, addr, TRUE)
    \/ \E u \in Users, percent \in Percents \cup {NaN} :
          /\ user_data[u].present
          /\ sweep.pc = "idle" \/ alerts = sweep.rows
          /\ handle_token(u, Text(percent, FALSE), 100, NoToken, TRUE)
    \/ StartSweep
    \/ send_message(TRUE)

SpecOneShot == InitAlerts /\ [][NextOneShot]_vars

\* Sweep after sweep over alerts with numeric percents, each send succeeding
\* or raising.
NextSendFails ==
    \/ \E u \in Users, data \in {"price_inc", "liq_dec"}, addr \in Addrs :
          handle_callback(u, data, addr, TRUE)
    \/ \E u \in Users, percent \in Percents :
          /\ user_data[u].present
          /\ sweep.pc = "idle" \/ alerts = sweep.rows
          /\ handle_token(u, Text(percent, FALSE), 100, NoToken, TRUE)
    \/ StartSweep
    \/ \E ok \in BOOLEAN : send_message(ok)

SpecSendFails == InitAlerts /\ [][NextSendFails]_vars

\* The provider delivers an event to the webhook thread, as in Deliver.
DeliverCall ==
    \E ev \in Events, valid \in BOOLEAN :
        /\ valid \/ ev.type = "customer.updated"
        /\ \A u \in Users :
               users[u].expiry_date + Timedelta(PremiumDays)
                   <= MaxPeriods * Timedelta(PremiumDays)
        /\ WebhookExecute(ev, valid)

\* The two threads on the shared cursor: alert buttons on the bot's thread,
\* requests on the webhook's, while subscriptions start, lapse and end.
NextCursor ==
    \/ \E u \in Users : CallbackExecute(u)
    \/ \E up \in BOOLEAN : CallbackFetch(up)
    \/ DeliverCall
    \/ WebhookFetch
    \/ \E u \in Users : Pay(u)
    \/ \E s \in Subs : Cancel(s)
    \/ Clock

SpecCursor == InitGate /\ [][NextCursor]_vars

\* The score: one scan of every token the providers can describe.
NextScore ==
    /\ report = NoReport
    /\ hist["u1"].asked = 0
    /\ \E c \in Chains :
           \E ed \in EdData(c), ds \in DsData, gp \in GpData(c) :
               analyze_token("u1", Token(c, ed, ds, gp), TRUE)

SpecScore == Init /\ [][NextScore]_vars

\* The label and the closing paragraph for every score of the scale.
RiskReport(score) ==
    /\ report = NoReport
    /\ report' = RenderReport(Clamp(score), {})
    /\ UNCHANGED <<users, alerts, now, user_data, stripe, sweep, sent, http, ret, hist,
                   cursor, calls>>

NextLabel == \E score \in 0..ScoreCap : RiskReport(score)

SpecLabel == Init /\ [][NextLabel]_vars

(***************************************************************************)
(* Properties.                                                             *)
(***************************************************************************)

RECURSIVE SumOfWeights(_)
SumOfWeights(flags) ==
    IF flags = {} THEN 0
    ELSE LET f == CHOOSE x \in flags : TRUE
         IN  Weight(f) + SumOfWeights(flags \ {f})

\* C1: the score analyze_token reports is min(100, sum of the weights of the
\* checks that triggered), an integer from 0 to 100.
C1_ScoreIsClampedSum ==
    report.kind = "report" =>
        LET sum == SumOfWeights(report.red_flags) IN
        /\ report.score = IF sum > 100 THEN 100 ELSE sum
        /\ report.score \in 0..100

\* A report whose checks sum to more than 100 and whose score is 100.
C1_Witness ==
    /\ report.kind = "report"
    /\ SumOfWeights(report.red_flags) > 100
    /\ report.score = 100

\* C9: for every score of 0..100 the label is Very Low for 0..20, Low for
\* 21..40, Medium for 41..60, High for 61..80 and Very High for 81..100, and
\* the paragraph is the low-risk text exactly for Very Low / Low, the
\* medium-risk text exactly for Medium and the higher-risk text exactly for
\* High / Very High.
C9_LabelBands ==
    report.kind = "report" =>
        /\ report.score \in 0..20 => report.label = "Very Low"
        /\ report.score \in 21..40 => report.label = "Low"
        /\ report.score \in 41..60 => report.label = "Medium"
        /\ report.score \in 61..80 => report.label = "High"
        /\ report.score \in 81..100 => report.label = "Very High"
        /\ report.meaning = "low" <=> report.label \in {"Very Low", "Low"}
        /\ report.meaning = "medium" <=> report.label = "Medium"
        /\ report.meaning = "higher" <=> report.label \in {"High", "Very High"}

\* C2 (as claimed): a user who starts without a users row, is never premium
\* and never resets gets True from can_scan for exactly the first 3 scan
\* requests and False for every later one.
C2_ThreeFreeScans ==
    \A u \in Users :
        hist[u].clean =>
            hist[u].granted = IF hist[u].asked <= 3 THEN hist[u].asked ELSE 3

\* What the provider may answer when is_premium polls it.
Statuses == {"active", "canceled", "error"}

\* C5: a step in which the webhook processes checkout.session.completed for
\* user u leaves u's row with is_premium TRUE, the session's subscription and
\* an expiry_date 30 days after the processing time (in the stored format);
\* with that row is_premium(u) returns True at every time before the expiry,
\* whatever the provider answers.
C5_CheckoutGrantsPremium ==
    [][\A ev \in Events :
         (ev.type = "checkout.session.completed" /\ webhook(ev, TRUE)) =>
             LET row == users'[ev.user]
                 expiry == Strftime(now + 30 * TicksPerDay)
             IN  /\ row.present
                 /\ row.is_premium
                 /\ row.subscription_id = ev.sub
                 /\ row.expiry_date = expiry
                 /\ \A t \in now..(expiry - 1), st \in Statuses :
                        is_premium(users', ev.user, t, st) =
                            [ret |-> TRUE, users |-> users']]_vars

\* The webhook has just processed a checkout event between two instants of
\* the stored format: the user is premium until 30 days from now.
C5_Witness ==
    /\ http = [status |-> 200, type |-> "checkout.session.completed"]
    /\ now % TicksPerDay # 0
    /\ \E u \in Users :
           /\ users[u].is_premium
           /\ users[u].subscription_id = SubOf(u)
           /\ users[u].expiry_date = Strftime(now + 30 * TicksPerDay)
           /\ users[u].total_scans = 3

\* C6: a step in which the webhook processes customer.subscription.deleted
\* for subscription s leaves every row that held s with is_premium FALSE,
\* subscription_id NULL and expiry_date NULL, and leaves every other row and
\* every total_scans as they were.
C6_DeletedRevokesOnlyItsRows ==
    [][\A ev \in Events :
         (ev.type = "customer.subscription.deleted" /\ webhook(ev, TRUE)) =>
             \A u \in Users :
                 IF users[u].present /\ users[u].subscription_id = ev.sub
                 THEN /\ users'[u].is_premium = FALSE
                      /\ users'[u].subscription_id = NULL
                      /\ users'[u].expiry_date = None
                      /\ users'[u].present
                      /\ users'[u].total_scans = users[u].total_scans
                 ELSE users'[u] = users[u]]_vars

\* The webhook has just revoked one user's subscription while the other user
\* is still premium with their own.
C6_Witness ==
    /\ http = [status |-> 200, type |-> "customer.subscription.deleted"]
    /\ \E u, v \in Users :
           /\ u # v
           /\ users[u].present /\ ~users[u].is_premium
           /\ users[u].subscription_id = NULL /\ users[u].expiry_date = None
           /\ users[u].total_scans = 3
           /\ stripe.subs[SubOf(u)].status = "canceled"
           /\ users[v].is_premium /\ users[v].subscription_id = SubOf(v)

\* C7: a webhook request whose payload is invalid or whose signature does not
\* verify is answered with 400 and leaves the users and alerts tables
\* unchanged: no event branch runs for it.
C7_InvalidRequestRejected ==
    [][\A ev \in Events :
         webhook(ev, FALSE) =>
             /\ http'.status = 400
             /\ users' = users
             /\ alerts' = alerts]_vars

\* A request was answered with 400 while the provider holds a subscription
\* whose checkout event would have made its owner premium.
C7_Witness ==
    /\ http.status = 400
    /\ \E s \in Subs :
           /\ stripe.subs[s].status = "active"
           /\ users[stripe.subs[s].owner].present
           /\ ~users[stripe.subs[s].owner].is_premium

\* The claimed condition, in exact arithmetic: current >= baseline * (1 +
\* percent / 100) for an increase alert, current <= baseline * (1 - percent /
\* 100) for a decrease alert.
Crossed(alert, current) ==
    IF alert.direction = "increase"
    THEN current * 100 >= alert.set_value * (100 + alert.percent)
    ELSE current * 100 <= alert.set_value * (100 - alert.percent)

\* C3 (as claimed): in a sweep, an alert whose current value was fetched is
\* notified if and only if it is an increase alert and current >= baseline *
\* (1 + percent / 100), or a decrease alert and current <= baseline * (1 -
\* percent / 100); price alerts are compared with the current price and
\* liquidity alerts with the current liquidity.  Stated where the sweep awaits
\* a send: of the alerts it has walked, those it notified (the one being sent
\* and those queued for deletion) are exactly those that crossed.
C3_NotifiedIffCrossed ==
    sweep.pc = "send" =>
        \A i \in 1..sweep.idx :
            LET key == sweep.order[i]
                alert == sweep.rows[key]
                current == IF alert.alert_type = "price" THEN sweep.prices[key[2]]
                           ELSE sweep.liquidities[key[2]]
            IN  (current # 0 /\ alert.percent \in Percents) =>
                    ((i = sweep.idx \/ key \in sweep.to_delete)
                        <=> Crossed(alert, current))

\* A step of the alert_check job: its start or its return from a send.
SweepStep ==
    \/ \E order \in Orders({k \in Keys : alerts[k].present}),
          fp \in [Addrs -> Fetched], fl \in [Addrs -> Fetched] :
          alert_check(order, fp, fl)
    \/ \E ok \in BOOLEAN : send_message(ok)

\* C10 (as claimed): a sweep never modifies a stored alert, and every alert
\* that does not fire in the sweep is in the store unchanged after it: a step
\* of the job leaves each alert as it was, or removes an alert that the sweep
\* read and notified.
C10_SweepKeepsAlerts ==
    [][SweepStep =>
         \A k \in Keys :
             \/ alerts'[k] = alerts[k]
             \/ /\ alerts'[k] = NoAlert
                /\ sweep.pc = "send"
                /\ k \in sweep.to_delete \cup {sweep.order[sweep.idx]}
                /\ alerts[k] = sweep.rows[k]]_vars

\* The alerts the job has notified when it is about to return from a send
\* that succeeds.
Notified ==
    IF sweep.pc = "send" THEN sweep.to_delete \cup {sweep.order[sweep.idx]}
    ELSE {}

\* C11 (count): no stored alert has produced more than one notification.
C11_AtMostOnce == \A k \in Keys : sent[k] <= 1

\* C11 (sweep): when the job ends after a send that succeeded, every alert it
\* notified is out of the store.
C11_FiredIsRemoved ==
    (send_message(TRUE) /\ sweep' = Idle) =>
        \A k \in Notified : alerts'[k] = NoAlert

\* C11 (as claimed): alerts are one-shot: when every notification send
\* succeeds, an alert that fires in a sweep is removed from the store by the
\* end of that sweep, so over any sequence of sweeps each alert that was set
\* produces at most one notification.
C11_OneShot == []C11_AtMostOnce /\ [][C11_FiredIsRemoved]_vars

\* C12 (count): every stored alert has produced at most one notification.
C12_StoredAtMostOnce == \A k \in Keys : alerts[k].present => sent[k] <= 1

\* C12 (sweep): when a send raises, the job goes on with the alerts after the
\* failed one: it awaits the send of the next alert that fires, or ends with
\* the alerts it notified removed.
C12_FailureIsContained ==
    send_message(FALSE) =>
        LET at == Loop(sweep, sweep.idx + 1) IN
        IF at.pc = "send"
        THEN sweep'.pc = "send" /\ sweep'.idx = at.idx
        ELSE alerts' = DeleteAlerts(alerts, sweep.to_delete)

\* C12 (as claimed): over any sequence of sweeps in which a send_message call
\* may raise for some alert, each stored alert still produces at most one
\* notification, and the failure of one alert's send does not stop the other
\* alerts of that sweep from being evaluated and, if fired, removed.
C12_SendFailures == []C12_StoredAtMostOnce /\ [][C12_FailureIsContained]_vars

\* C13 (as claimed): a sweep removes only alerts it evaluated and notified: if
\* handle_token sets or replaces an alert for (user, address) while
\* alert_check is suspended awaiting a notification send, that newly set alert
\* is still in the store, un-notified, when the sweep completes.  Stated at the
\* step that completes the sweep, its last send having succeeded and the
\* alerts after it walked without error.
C13_SweepSparesNewAlerts ==
    [][(/\ send_message(TRUE)
        /\ Loop([sweep EXCEPT !.to_delete = @ \cup {sweep.order[sweep.idx]}],
                sweep.idx + 1).pc = "done")
         => \A k \in sweep.replaced :
                /\ alerts'[k].present
                /\ alerts'[k] = alerts[k]
                /\ sent'[k] = 0]_vars

\* C14 (as claimed): under every interleaving of the webhook server thread
\* with the bot's handlers, which share one connection and one cursor without
\* a lock, the row a handler obtains from fetchone is a row of the SELECT that
\* the same handler executed immediately before: when a thread calls
\* fetchone, the cursor holds the result of that thread's own execute and
\* nothing has been fetched from it.
C14_FetchReadsOwnSelect ==
    [][/\ (\E up \in BOOLEAN : CallbackFetch(up))
            => (cursor.by = "bot" /\ cursor.pos = 0)
       /\ WebhookFetch => (cursor.by = "web" /\ cursor.pos = 0)]_vars

\* The invoice.payment_succeeded event of subscription s.
InvoiceOf(s) == [type |-> "invoice.payment_succeeded", user |-> "", sub |-> s]

\* C15 (order): when the webhook processes checkout.session.completed for a
\* subscription no row holds yet, processing the subscription's first invoice
\* next leaves the table that processing the invoice first and the checkout
\* second would leave.
C15_EitherOrder ==
    \A ev \in Events :
        (/\ ev.type = "checkout.session.completed"
         /\ HolderOf(users, ev.sub) = ""
         /\ users[ev.user].present
         /\ webhook(ev, TRUE))
        => WebhookInvoice(users', InvoiceOf(ev.sub))
               = WebhookCheckout(WebhookInvoice(users, InvoiceOf(ev.sub)), ev, now)

\* C15 (renewal): an invoice.payment_succeeded for a subscription a row holds
\* moves that row's expiry_date on by exactly 30 days and changes nothing
\* else; one for a subscription no row holds changes nothing.
C15_InvoiceExtends ==
    \A ev \in Events :
        (ev.type = "invoice.payment_succeeded" /\ webhook(ev, TRUE))
        => LET user_id == HolderOf(users, ev.sub) IN
           IF user_id = "" THEN users' = users
           ELSE users' = UpdateRow(users, user_id,
                    [users[user_id] EXCEPT !.expiry_date =
                        users[user_id].expiry_date + Timedelta(PremiumDays)])

\* C15 (as claimed): for a new subscription s of user u, processing
\* checkout.session.completed and the first invoice.payment_succeeded for s
\* gives the same final users row (same expiry_date) whichever of the two
\* events the webhook processes first; an invoice.payment_succeeded for a
\* known subscription otherwise extends the stored expiry_date by exactly 30
\* days and one for an unknown subscription changes nothing.
C15_CheckoutAndInvoice == [][C15_EitherOrder /\ C15_InvoiceExtends]_vars

\* C15 (renewal), over every step of the billing specification.
C15_Renewal == [][C15_InvoiceExtends]_vars

\* C4 (rows): every stored alert, and every pending alert_setup, was started
\* by a price_inc_ / price_dec_ / liq_inc_ / liq_dec_ callback at which
\* is_premium returned True.
C4_StartedPremium ==
    /\ \A k \in Keys : alerts[k].present => alerts[k].premium
    /\ \A u \in Users : user_data[u].present => user_data[u].premium

\* C4 (steps): a callback of a user for whom is_premium returns False records
\* no alert_setup and stores no alert.
C4_RefusedCallback ==
    \A u \in Users, data \in MenuData \cup SetupData, addr \in Addrs, up \in BOOLEAN :
        (/\ ~is_premium(users, u, now, StatusOf(users, u, up)).ret
         /\ handle_callback(u, data, addr, up)) =>
            /\ user_data' = user_data
            /\ alerts' = alerts
            /\ ret'.reply = "premium_feature"

\* C4: alerts are a premium feature: after any sequence of callbacks and
\* messages every record of the alerts table belongs to a user for whom
\* is_premium returned True at the callback that started its setup, and a
\* non-premium user's callback records no alert_setup and stores no alert.
C4_AlertsArePremium == []C4_StartedPremium /\ [][C4_RefusedCallback]_vars

\* u1 set an alert while premium, the subscription was then revoked, and the
\* callback that followed was refused and left no alert_setup.
C4_Witness ==
    /\ alerts[<<"u1", "a1">>].present
    /\ ~users["u1"].is_premium
    /\ user_data["u1"] = NoSetup
    /\ ret = Reply("premium_feature", FALSE)

\* A scan of user u.
Scan(u, up) == analyze_token(u, SomeToken, up)

\* C8: whenever is_premium(u) returns True, can_scan(u) returns True and
\* leaves u's total_scans unchanged, scan after scan: a scan of such a user is
\* never refused and never counted.
C8_PremiumScansUnlimited ==
    [][\A u \in Users, up \in BOOLEAN :
         (is_premium(users, u, now, StatusOf(users, u, up)).ret /\ Scan(u, up)) =>
             /\ ret'.reply # "used_free_scans"
             /\ can_scan(users, u, now, StatusOf(users, u, up)).ret
             /\ users'[u].total_scans = users[u].total_scans
             /\ is_premium(users', u, now', StatusOf(users', u, up)).ret
      ]_vars

\* A premium user whose free scans are used up has just been given a report.
C8_Witness ==
    /\ ret = Reply("report", TRUE)
    /\ report.kind = "report"
    /\ \E u \in Users : users[u].is_premium /\ users[u].total_scans = 3

\* A report at the upper end of a band: 40 is Low, with the low-risk text.
C9_Witness ==
    /\ report.kind = "report"
    /\ report.score = 40
    /\ report.label = "Low"
    /\ report.meaning = "low"

====
